---- MODULE Spec2Model ----
(***************************************************************************)
(* nob.hpp: the Command builder (Cmd), the process runner (Cmd::run_sync,  *)
(* Cmd::run_sync_capture) with the child process and the capture pipe, and *)
(* the self-rebuild trampoline (go_rebuild_urself).                        *)
(***************************************************************************)
EXTENDS Integers, Sequences, FiniteSets, TLC

(* ------------------------------------------------------------------ *)
(* Bounds of the model                                                 *)
(* ------------------------------------------------------------------ *)

\* longest argument sequence of a Command
MaxArgs == 2
\* most bytes a child writes to its standard output
MaxOut == 3
\* most bytes one write(2) call of the child carries
MaxChunk == 2
\* capacity of the kernel pipe buffer (bytes)
PipeCap == 2
\* sizeof(buffer) of the drain loop, scaled down (char buffer[4096])
BufferSize == 2
\* most system calls of one run that a signal interrupts
MaxEINTR == 1
\* modification timestamps range over 0..MaxTime
MaxTime == 2
\* longest argument sequence a Command is grown to by add
MaxCmdLen == 3
\* most run calls one caller makes one after the other
MaxRuns == 2

(* ------------------------------------------------------------------ *)
(* Values                                                              *)
(* ------------------------------------------------------------------ *)

\* argument tokens are strings, modelled as sequences of characters
Tokens == { <<"c">>, <<"-", "o">> }
\* what a dangling char* may be found to point at besides live tokens
GarbageToken == <<"?">>
Bytes == {0, 1}
\* content a sink may hold before the call
PriorSinks == { <<>>, <<7>> }
Dirs == {".", "build"}
ExitCodes == {0, 1, 3}
\* signals that end a child: the two that kill its image from outside or on a
\* write to a closed pipe, and the abort of an uncaught exception
Signals == {"SIGKILL", "SIGPIPE"}
SigNum(sig) == IF sig = "SIGKILL" THEN 9 ELSE IF sig = "SIGPIPE" THEN 13 ELSE 6

SeqsUpTo(S, n) == UNION { [1..k -> S] : k \in 0..n }
Commands == SeqsUpTo(Tokens, MaxArgs) \ { <<>> }

Min(a, b) == IF a < b THEN a ELSE b

(* ------------------------------------------------------------------ *)
(* wait(2) status words, <sys/wait.h>                                   *)
(* ------------------------------------------------------------------ *)

\* status word the kernel stores for a child that called _exit(n)
ExitedStatus(n) == (n % 256) * 256
\* status word the kernel stores for a child killed by signal sig
SignaledStatus(sig) == SigNum(sig) % 128
WIFEXITED(st) == (st % 128) = 0
WEXITSTATUS(st) == (st \div 256) % 256
\* what an int that was never written may hold
UninitInts == { ExitedStatus(0), ExitedStatus(3), SignaledStatus("SIGKILL") }

\* the tail of run_sync / run_sync_capture: the status handed to the caller
Normalize(st) == IF WIFEXITED(st) THEN WEXITSTATUS(st) ELSE 1

(* ------------------------------------------------------------------ *)
(* Logging                                                             *)
(* ------------------------------------------------------------------ *)

RECURSIVE Flatten(_)
Flatten(ss) == IF ss = <<>> THEN <<>> ELSE Head(ss) \o Flatten(Tail(ss))

CmdTextDropsLast(command) ==
    Flatten([i \in 1..(Len(command) - 1) |-> command[i] \o <<" ">>])
\* operator<<(std::ostream&, const Cmd&): every token followed by a blank
CmdText(command) ==
    Flatten([i \in 1..Len(command) |-> command[i] \o <<" ">>])

\* log(out, lvl, args...): level prefix, the arguments, a newline
LogLine(lvl, args) ==
    [lvl |-> lvl,
     text |-> << IF lvl = "Info" THEN "[NOB INFO] "
                 ELSE IF lvl = "Warning" THEN "[NOB WARNING] "
                 ELSE IF lvl = "Error" THEN "[NOB ERROR] "
                 ELSE "[NOB UNKNOWN] " >> \o args \o <<"\n">>]

(* ------------------------------------------------------------------ *)
(* State                                                               *)
(* ------------------------------------------------------------------ *)

VARIABLES
    m_command,      \* Cmd::m_command
    m_working_dir,  \* Cmd::m_working_dir
    call,           \* which run method is executing: "none", "run_sync", "run_sync_capture"
    pc,             \* position of the calling process inside the run method
    cout,           \* lines the calling process has sent to std::cout
    parent_cwd,     \* current directory of the calling process
    parent_fds,     \* pipe ends the calling process holds open: "r", "w"
    pipe_buf,       \* bytes inside the pipe
    sink,           \* the std::ostream& out of run_sync_capture
    sink0,          \* what the sink held when the call began
    status,         \* the local int status; -1 while never written
    ret,            \* value returned to the caller; -1 while none
    thrown,         \* message of the exception leaving the call; "" while none
    eintr,          \* number of interrupted system calls so far
    child_pc,       \* "none", "forked", "ready", "running", "unwound", "terminated", "reaped"
    child_fds,      \* pipe ends the child holds open: "r", "w", "stdout"
    child_cwd,      \* current directory of the child
    child_cout,     \* lines the child sent to its copy of std::cout
    child_exec,     \* "none", "ok", "failed": outcome of execvp in the child
    child_image,    \* argument vector the child's new image was started with
    child_pending,  \* bytes of the child's current write(2) not yet in the pipe
    child_out,      \* bytes the child has written to its standard output
    child_status,   \* status word of the terminated child; -1 while it lives
    rb_pc,          \* go_rebuild_urself: "off", "start", "compile", "returned", "thrown",
                    \* "restarted", "exited"
    binary_time,    \* go_rebuild_urself: local binary_time
    source_time,    \* go_rebuild_urself: local source_time
    recompiles,     \* number of times go_rebuild_urself ran the compiler command
    last_ops,       \* the last two operations called on the Cmd, oldest first, each
                    \* with its arguments and the m_command it found
    runs,           \* number of run calls the caller has left behind
    fs,             \* the file system: what each path names, "dir" or "file";
                    \* a path outside the domain names nothing
    mk_calls,       \* the last two calls of mkdir, oldest first, each with its
                    \* path, the file system before and after, and how it ended
    ar_pc,          \* where a call of extract or download_and_extract stands
    ar_call,        \* that call: function and arguments
    ar_steps,       \* the sub-steps it has attempted, in order
    ar_ret,         \* what it returned: "true", "false", or "none"
    lg_pc,          \* per thread: where its call of log stands
    lg_call,        \* per thread: the instantiation called, the stream, the level
    lg_mtx,         \* per instantiation of log: the thread holding its mutex, 0 if none
    lg_out,         \* per stream: the pieces written to it, each with its writer
    lg_left         \* per thread: calls of log it has yet to make

vars == << m_command, m_working_dir, call, pc, cout, parent_cwd, parent_fds,
           pipe_buf, sink, sink0, status, ret, thrown, eintr,
           child_pc, child_fds, child_cwd, child_cout, child_exec, child_image,
           child_pending, child_out, child_status,
           rb_pc, binary_time, source_time, recompiles, last_ops, runs,
           fs, mk_calls, ar_pc, ar_call, ar_steps, ar_ret,
           lg_pc, lg_call, lg_mtx, lg_out, lg_left >>

rbVars == << rb_pc, binary_time, source_time, recompiles >>
fsVars == << fs, mk_calls >>
archVars == << ar_pc, ar_call, ar_steps, ar_ret >>
logVars == << lg_pc, lg_call, lg_mtx, lg_out, lg_left >>
extVars == << runs, fsVars, archVars, logVars >>
callerVars == << rb_pc, binary_time, source_time, recompiles, last_ops, extVars >>
cmdVars == << m_command, m_working_dir >>
parentVars == << call, pc, cout, parent_cwd, parent_fds, sink, sink0,
                 status, ret, thrown, eintr >>
childVars == << child_pc, child_fds, child_cwd, child_cout, child_exec, child_image,
                child_pending, child_out, child_status >>

InitRun ==
    /\ call = "none"
    /\ pc = "idle"
    /\ cout = <<>>
    /\ parent_cwd = "."
    /\ parent_fds = {}
    /\ pipe_buf = <<>>
    /\ sink \in PriorSinks
    /\ sink0 = sink
    /\ status = -1
    /\ ret = -1
    /\ thrown = ""
    /\ eintr = 0
    /\ child_pc = "none"
    /\ child_fds = {}
    /\ child_cwd = "."
    /\ child_cout = <<>>
    /\ child_exec = "none"
    /\ child_image = <<>>
    /\ child_pending = <<>>
    /\ child_out = <<>>
    /\ child_status = -1

\* no archive call under way
ArchIdle ==
    /\ ar_pc = "idle"
    /\ ar_call = <<>>
    /\ ar_steps = <<>>
    /\ ar_ret = "none"

\* no thread logging
LogIdle ==
    /\ lg_pc = <<>>
    /\ lg_call = <<>>
    /\ lg_mtx = <<>>
    /\ lg_out = <<>>
    /\ lg_left = <<>>

\* nothing of the file system looked at, no helper called
ExtIdle ==
    /\ fs = <<>>
    /\ mk_calls = <<>>
    /\ ArchIdle
    /\ LogIdle

\* no trampoline running, no builder operation recorded
InitCaller ==
    /\ rb_pc = "off"
    /\ binary_time = 0
    /\ source_time = 0
    /\ recompiles = 0
    /\ last_ops = <<>>
    /\ runs = 0
    /\ ExtIdle

\* a caller about to run a Command it has built
Init ==
    /\ m_command \in Commands
    /\ m_working_dir \in Dirs
    /\ InitRun
    /\ InitCaller

(* ------------------------------------------------------------------ *)
(* Cmd::run_sync and Cmd::run_sync_capture, calling process             *)
(* ------------------------------------------------------------------ *)

\* argv of run_sync: `for (auto& s : m_command) argv.push_back(s.data())`,
\* pointers into the live tokens
ArgvSync(command) == { command }

\* argv of run_sync_capture: `for (auto s : m_command) argv.push_back(s.data())`,
\* pointers into a loop-local copy that is destroyed at the end of each
\* iteration. Every entry dangles: what execvp finds there is the old bytes,
\* the bytes of the last copy made in the reused slot, or anything else.
ArgvCapture(command) ==
    { a \in [1..Len(command) -> Tokens \cup {GarbageToken}] :
        \A i \in 1..Len(command) :
            a[i] \in {command[i], command[Len(command)], GarbageToken} }

ArgvSeen == IF call = "run_sync" THEN ArgvSync(m_command) ELSE ArgvCapture(m_command)

\* some process holds the write side of the pipe open
Writers == ("w" \in parent_fds) \/ (child_fds \cap {"w", "stdout"} # {})
\* some process holds the read side of the pipe open
Readers == ("r" \in parent_fds) \/ ("r" \in child_fds)

RunSyncLogLine(command) == LogLine("Info", <<"Running sync: ">> \o CmdText(command))
RunSyncCaptureLogLine(command) ==
    LogLine("Info", <<"Running sync capture: ">> \o CmdText(command))

CwdOfCallerEntersWd(cwd, wd) == wd
\* lines 123-135 and 156-173: what the calling process does to its own current
\* directory on the way to fork(): nothing; fs::current_path(m_working_dir)
\* stands only in the pid == 0 branch
CwdOfCaller(cwd, wd) == cwd

\* run_sync, lines 125-130: log the command, build argv
RunSync ==
    /\ pc = "idle"
    /\ call' = "run_sync"
    /\ cout' = Append(cout, RunSyncLogLine(m_command))
    /\ pc' = "fork"
    /\ parent_cwd' = CwdOfCaller(parent_cwd, m_working_dir)
    /\ UNCHANGED << cmdVars, callerVars, parent_fds, pipe_buf, sink, sink0, status, ret,
                    thrown, eintr, childVars >>

\* run_sync_capture, lines 158-164: log the command, build argv
RunSyncCapture ==
    /\ pc = "idle"
    /\ call' = "run_sync_capture"
    /\ cout' = Append(cout, RunSyncCaptureLogLine(m_command))
    /\ pc' = "pipe"
    /\ parent_cwd' = CwdOfCaller(parent_cwd, m_working_dir)
    /\ UNCHANGED << cmdVars, callerVars, parent_fds, pipe_buf, sink, sink0, status, ret,
                    thrown, eintr, childVars >>

\* run_sync_capture, lines 166-169: pipe(pipefd)
Pipe ==
    /\ pc = "pipe"
    /\ \/ /\ parent_fds' = {"r", "w"}
          /\ pc' = "fork"
          /\ UNCHANGED thrown
       \/ /\ thrown' = "run_sync_capture(): pipe failed"
          /\ pc' = "thrown"
          /\ UNCHANGED parent_fds
    /\ UNCHANGED << cmdVars, callerVars, call, cout, parent_cwd, pipe_buf, sink, sink0, status,
                    ret, eintr, childVars >>

PcAfterForkWaitsFirst == "wait"
\* where the calling process continues after fork() returned the child's pid
PcAfterFork == IF call = "run_sync_capture" THEN "close_w" ELSE "wait"

\* lines 132-135 and 171-173: fork()
Fork ==
    /\ pc = "fork"
    /\ \/ /\ child_pc' = "forked"
          /\ child_fds' = parent_fds
          /\ child_cwd' = parent_cwd
          /\ pc' = PcAfterFork
          /\ UNCHANGED thrown
       \/ /\ thrown' = (IF call = "run_sync" THEN "run_sync(): fork() failed"
                        ELSE "run_sync_capture(): fork() failed")
          /\ pc' = "thrown"
          /\ UNCHANGED << child_pc, child_fds, child_cwd >>
    /\ UNCHANGED << cmdVars, callerVars, call, cout, parent_cwd, parent_fds, pipe_buf, sink, sink0,
                    status, ret, eintr, child_cout, child_exec, child_image,
                    child_pending, child_out, child_status >>

\* line 182: close(pipefd[1]) in the calling process
FdsAfterCloseWrite(fds) == fds \ {"w"}

ParentCloseWrite ==
    /\ pc = "close_w"
    /\ parent_fds' = FdsAfterCloseWrite(parent_fds)
    /\ pc' = "drain"
    /\ UNCHANGED << cmdVars, callerVars, call, cout, parent_cwd, pipe_buf, sink, sink0, status,
                    ret, thrown, eintr, childVars >>

LoopDecisionEintrEnds(bytes_read, errno) ==
    IF bytes_read <= 0 THEN "eof" ELSE "write"
\* lines 185-194: what the drain loop does with the result of one read()
LoopDecision(bytes_read, errno) ==
    IF bytes_read = 0 THEN "eof"
    ELSE IF bytes_read = -1
         THEN (IF errno = "EINTR" THEN "retry" ELSE "throw")
         ELSE "write"

\* one pass of the drain loop, given what read(pipefd[0], buffer, sizeof(buffer))
\* returned: bytes_read, errno, and the bytes it stored in buffer
DrainStep(bytes_read, errno, buffer) ==
    LET d == LoopDecision(bytes_read, errno) IN
    /\ pc' = CASE d = "eof" -> "wait"
               [] d = "throw" -> "thrown"
               [] OTHER -> "drain"
    /\ sink' = IF d = "write" THEN sink \o SubSeq(buffer, 1, bytes_read) ELSE sink
    /\ parent_fds' = IF d = "throw" THEN parent_fds \ {"r"} ELSE parent_fds
    /\ thrown' = IF d = "throw" THEN "run_sync_capture(): Error reading from pipe"
                 ELSE thrown

\* read() finds bytes in the pipe and returns up to sizeof(buffer) of them
ReadData ==
    /\ pc = "drain"
    /\ pipe_buf # <<>>
    /\ \E n \in 1..Min(BufferSize, Len(pipe_buf)) :
          /\ DrainStep(n, "", SubSeq(pipe_buf, 1, n))
          /\ pipe_buf' = SubSeq(pipe_buf, n + 1, Len(pipe_buf))
    /\ UNCHANGED << cmdVars, callerVars, call, cout, parent_cwd, sink0, status, ret, eintr,
                    childVars >>

\* read() on an empty pipe with no write end open anywhere returns 0
ReadEOF ==
    /\ pc = "drain"
    /\ pipe_buf = <<>>
    /\ ~Writers
    /\ DrainStep(0, "", <<>>)
    /\ UNCHANGED << cmdVars, callerVars, call, cout, parent_cwd, pipe_buf, sink0, status, ret,
                    eintr, childVars >>

\* read() blocked on an empty pipe is interrupted by a signal: -1, errno EINTR
ReadEINTR ==
    /\ pc = "drain"
    /\ pipe_buf = <<>>
    /\ Writers
    /\ eintr < MaxEINTR
    /\ eintr' = eintr + 1
    /\ DrainStep(-1, "EINTR", <<>>)
    /\ UNCHANGED << cmdVars, callerVars, call, cout, parent_cwd, pipe_buf, sink0, status, ret,
                    childVars >>

\* read() fails with another error: -1, errno EIO
ReadError ==
    /\ pc = "drain"
    /\ DrainStep(-1, "EIO", <<>>)
    /\ UNCHANGED << cmdVars, callerVars, call, cout, parent_cwd, pipe_buf, sink0, status, ret,
                    eintr, childVars >>

\* lines 147-151 and 199-205: close(pipefd[0]), out.flush(), normalize status
Finish(st) ==
    /\ status' = st
    /\ ret' = Normalize(st)
    /\ parent_fds' = parent_fds \ {"r"}
    /\ pc' = "returned"

\* lines 146 and 198: waitpid(pid, &status, 0) returns the pid of the dead child
WaitpidReaps ==
    /\ pc = "wait"
    /\ child_pc = "terminated"
    /\ child_pc' = "reaped"
    /\ Finish(child_status)
    /\ UNCHANGED << cmdVars, callerVars, call, cout, parent_cwd, pipe_buf, sink, sink0, thrown,
                    eintr, child_fds, child_cwd, child_cout, child_exec, child_image,
                    child_pending, child_out, child_status >>

\* waitpid blocked on the living child is interrupted by a signal: it returns -1
\* and leaves status unwritten; the return value is not looked at, and the
\* code goes on to read status
WaitpidInterrupted ==
    /\ pc = "wait"
    /\ child_pc \notin {"terminated", "reaped"}
    /\ eintr < MaxEINTR
    /\ eintr' = eintr + 1
    /\ \E garbage \in UninitInts : Finish(garbage)
    /\ UNCHANGED << cmdVars, callerVars, call, cout, parent_cwd, pipe_buf, sink, sink0, thrown,
                    childVars >>

(* ------------------------------------------------------------------ *)
(* The child process                                                   *)
(* ------------------------------------------------------------------ *)

ChildTerminates(st) ==
    /\ child_pc' = "terminated"
    /\ child_status' = st
    /\ child_fds' = {}
    /\ child_pending' = <<>>

\* lines 137-140: the directory the child is in once fs::current_path succeeded
ChildCwdAfterChdir(cwd, wd) == wd

\* run_sync, child branch, lines 137-140: change into m_working_dir.
\* fs::current_path throws std::filesystem::filesystem_error when it fails,
\* and the exception leaves run_sync inside the child.
ChildChdir ==
    /\ call = "run_sync"
    /\ child_pc = "forked"
    /\ \/ /\ m_working_dir # "."
          /\ child_cout' = Append(child_cout,
                LogLine("Info", <<"Changing working dir to ", m_working_dir>>))
          /\ \/ /\ child_cwd' = ChildCwdAfterChdir(child_cwd, m_working_dir)
                /\ child_pc' = "ready"
             \/ /\ child_pc' = "unwound"
                /\ UNCHANGED child_cwd
       \/ /\ m_working_dir = "."
          /\ child_pc' = "ready"
          /\ UNCHANGED << child_cwd, child_cout >>
    /\ UNCHANGED << cmdVars, callerVars, parentVars, pipe_buf, child_fds, child_exec, child_image,
                    child_pending, child_out, child_status >>

\* run_sync_capture, child branch, lines 175-177:
\* close(pipefd[0]); dup2(pipefd[1], STDOUT_FILENO); close(pipefd[1])
ChildRedirect ==
    /\ call = "run_sync_capture"
    /\ child_pc = "forked"
    /\ child_fds' = ((child_fds \ {"r"}) \cup {"stdout"}) \ {"w"}
    /\ child_pc' = "ready"
    /\ UNCHANGED << cmdVars, callerVars, parentVars, pipe_buf, child_cwd, child_cout, child_exec,
                    child_image, child_pending, child_out, child_status >>

\* lines 141-143 and 178-180: execvp(argv[0], argv.data()); on failure
\* perror and _exit(1)
ChildExec ==
    /\ child_pc = "ready"
    /\ \/ /\ child_exec' = "ok"
          /\ child_image' \in ArgvSeen
          /\ child_pc' = "running"
          /\ UNCHANGED << child_fds, child_pending, child_status >>
       \/ /\ child_exec' = "failed"
          /\ ChildTerminates(ExitedStatus(1))
          /\ UNCHANGED child_image
    /\ UNCHANGED << cmdVars, callerVars, parentVars, pipe_buf, child_cwd, child_cout, child_out >>

\* the bytes of a blocked or starting write(2) that fit into the pipe now
Fits(bytes) == Min(Len(bytes), PipeCap - Len(pipe_buf))

\* the child's image calls write(1, chunk): what fits goes into the pipe,
\* and the call blocks for the rest
ChildWrite ==
    /\ child_pc = "running"
    /\ "stdout" \in child_fds
    /\ Readers
    /\ child_pending = <<>>
    /\ \E chunk \in SeqsUpTo(Bytes, MaxChunk) \ { <<>> } :
          /\ Len(child_out) + Len(chunk) <= MaxOut
          /\ LET k == Fits(chunk) IN
             /\ pipe_buf' = pipe_buf \o SubSeq(chunk, 1, k)
             /\ child_out' = child_out \o SubSeq(chunk, 1, k)
             /\ child_pending' = SubSeq(chunk, k + 1, Len(chunk))
    /\ UNCHANGED << cmdVars, callerVars, parentVars, child_pc, child_fds, child_cwd, child_cout,
                    child_exec, child_image, child_status >>

\* a blocked write(2) goes on once the pipe has room again
ChildWriteResume ==
    /\ child_pc = "running"
    /\ child_pending # <<>>
    /\ Readers
    /\ Fits(child_pending) > 0
    /\ LET k == Fits(child_pending) IN
       /\ pipe_buf' = pipe_buf \o SubSeq(child_pending, 1, k)
       /\ child_out' = child_out \o SubSeq(child_pending, 1, k)
       /\ child_pending' = SubSeq(child_pending, k + 1, Len(child_pending))
    /\ UNCHANGED << cmdVars, callerVars, parentVars, child_pc, child_fds, child_cwd, child_cout,
                    child_exec, child_image, child_status >>

\* a write to a pipe whose read side nobody holds open: SIGPIPE kills the child
ChildSigpipe ==
    /\ child_pc = "running"
    /\ "stdout" \in child_fds
    /\ ~Readers
    /\ child_pending # <<>> \/ Len(child_out) < MaxOut
    /\ ChildTerminates(SignaledStatus("SIGPIPE"))
    /\ UNCHANGED << cmdVars, callerVars, parentVars, pipe_buf, child_cwd, child_cout, child_exec,
                    child_image, child_out >>

\* the child's image ends with exit(n)
ChildExit ==
    /\ child_pc = "running"
    /\ child_pending = <<>>
    /\ \E n \in ExitCodes : ChildTerminates(ExitedStatus(n))
    /\ UNCHANGED << cmdVars, callerVars, parentVars, pipe_buf, child_cwd, child_cout, child_exec,
                    child_image, child_out >>

\* the child's image is killed by a signal
ChildKilled ==
    /\ child_pc = "running"
    /\ \E sig \in Signals : ChildTerminates(SignaledStatus(sig))
    /\ UNCHANGED << cmdVars, callerVars, parentVars, pipe_buf, child_cwd, child_cout, child_exec,
                    child_image, child_out >>

\* a child that the exception took out of run_sync runs the caller's code
\* and ends one way or another
ChildUnwoundEnds ==
    /\ child_pc = "unwound"
    /\ \E st \in { ExitedStatus(n) : n \in ExitCodes } \cup { SignaledStatus("SIGABRT") } :
          ChildTerminates(st)
    /\ UNCHANGED << cmdVars, callerVars, parentVars, pipe_buf, child_cwd, child_cout, child_exec,
                    child_image, child_out >>

ParentNext ==
    \/ RunSync
    \/ RunSyncCapture
    \/ Pipe
    \/ Fork
    \/ ParentCloseWrite
    \/ ReadData
    \/ ReadEOF
    \/ ReadEINTR
    \/ ReadError
    \/ WaitpidReaps
    \/ WaitpidInterrupted

ChildNext ==
    \/ ChildChdir
    \/ ChildRedirect
    \/ ChildExec
    \/ ChildWrite
    \/ ChildWriteResume
    \/ ChildSigpipe
    \/ ChildExit
    \/ ChildKilled
    \/ ChildUnwoundEnds

Next == ParentNext \/ ChildNext

Spec == Init /\ [][Next]_vars

\* the same caller, one Command and an empty sink; the steps the operating
\* system and the processes are bound to take are taken: the calling process
\* goes on when it can, and the child's image goes on until it has exited.
\* No signal, read error or kill is ever bound to arrive.
InitFair ==
    /\ Init
    /\ m_command = << <<"c">> >>
    /\ sink = <<>>

ParentProgress ==
    \/ RunSync
    \/ RunSyncCapture
    \/ Pipe
    \/ Fork
    \/ ParentCloseWrite
    \/ ReadData
    \/ ReadEOF
    \/ WaitpidReaps

ChildProgress ==
    \/ ChildChdir
    \/ ChildRedirect
    \/ ChildExec
    \/ ChildWrite
    \/ ChildWriteResume
    \/ ChildSigpipe
    \/ ChildExit
    \/ ChildUnwoundEnds

FairSpec ==
    InitFair /\ [][Next]_vars /\ WF_vars(ParentProgress) /\ WF_vars(ChildProgress)

(* ------------------------------------------------------------------ *)
(* The Command builder: Cmd::Cmd, Cmd::add, Cmd::set_wd, Cmd::reset     *)
(* ------------------------------------------------------------------ *)

\* Cmd::add: `(m_command.emplace_back(std::forward<Args>(args)), ...)`
AddTokens(command, tokens) == command \o tokens

ResetKeepsCommand(command) == command
\* Cmd::reset: m_command.clear()
ResetCommand(command) == <<>>

\* the default member initializer of m_working_dir, and what reset assigns
DefaultWd == "."

\* the record of an operation, kept with the one before it
Recorded(op, args) ==
    LET all == Append(last_ops, [op |-> op, args |-> args, before |-> m_command])
    IN  IF Len(all) > 2 THEN Tail(all) ELSE all

\* a Cmd as its constructor leaves it: Cmd(args...) adds its arguments
InitCmd ==
    /\ m_command \in { AddTokens(<<>>, xs) : xs \in SeqsUpTo(Tokens, MaxArgs) }
    /\ m_working_dir = DefaultWd
    /\ InitRun
    /\ InitCaller

Add ==
    /\ pc = "idle"
    /\ \E xs \in SeqsUpTo(Tokens, MaxArgs) :
          /\ Len(m_command) + Len(xs) <= MaxCmdLen
          /\ m_command' = AddTokens(m_command, xs)
          /\ last_ops' = Recorded("add", xs)
    /\ UNCHANGED << m_working_dir, rbVars, extVars, parentVars, pipe_buf, childVars >>

SetWd ==
    /\ pc = "idle"
    /\ \E path \in Dirs :
          /\ m_working_dir' = path
          /\ last_ops' = Recorded("set_wd", <<path>>)
    /\ UNCHANGED << m_command, rbVars, extVars, parentVars, pipe_buf, childVars >>

Reset ==
    /\ pc = "idle"
    /\ m_working_dir' = DefaultWd
    /\ m_command' = ResetCommand(m_command)
    /\ last_ops' = Recorded("reset", <<>>)
    /\ UNCHANGED << rbVars, extVars, parentVars, pipe_buf, childVars >>

NextCmd == Add \/ SetWd \/ Reset

SpecCmd == InitCmd /\ [][NextCmd]_vars

\* C6: a reset followed by add(x1..xn) leaves the argument sequence exactly
\* x1..xn and the default working directory, whatever the Command held; reset
\* alone leaves it empty with the default directory; every add leaves the
\* tokens it found followed by its own, in call order.
C6_ResetThenAdd ==
    /\ (Len(last_ops) = 2 /\ last_ops[1].op = "reset" /\ last_ops[2].op = "add") =>
          (m_command = last_ops[2].args /\ m_working_dir = DefaultWd)
    /\ \A i \in 1..Len(last_ops) :
          i = Len(last_ops) =>
             /\ last_ops[i].op = "reset" =>
                   (m_command = <<>> /\ m_working_dir = DefaultWd)
             /\ last_ops[i].op = "add" =>
                   m_command = last_ops[i].before \o last_ops[i].args

\* a Command that held tokens was reset and then given MaxArgs new ones
C6_Witness ==
    /\ Len(last_ops) = 2
    /\ last_ops[1].op = "reset"
    /\ last_ops[1].before # <<>>
    /\ last_ops[2].op = "add"
    /\ Len(last_ops[2].args) = MaxArgs
    /\ m_command = last_ops[2].args

(* ------------------------------------------------------------------ *)
(* A caller that uses one Cmd for several runs (src/nob.cpp)            *)
(* ------------------------------------------------------------------ *)

\* the run call has left (returned or thrown) and the caller goes on: the
\* next call starts with fresh locals, a fresh sink and no child of its own
Again ==
    /\ rb_pc = "off"
    /\ pc \in {"returned", "thrown"}
    /\ runs < MaxRuns
    /\ runs' = runs + 1
    /\ call' = "none"
    /\ pc' = "idle"
    /\ cout' = <<>>
    /\ parent_fds' = {}
    /\ pipe_buf' = <<>>
    /\ sink' \in PriorSinks
    /\ sink0' = sink'
    /\ status' = -1
    /\ ret' = -1
    /\ thrown' = ""
    /\ eintr' = 0
    /\ child_pc' = "none"
    /\ child_fds' = {}
    /\ child_cwd' = parent_cwd
    /\ child_cout' = <<>>
    /\ child_exec' = "none"
    /\ child_image' = <<>>
    /\ child_pending' = <<>>
    /\ child_out' = <<>>
    /\ child_status' = -1
    /\ UNCHANGED << cmdVars, rbVars, last_ops, fsVars, archVars, logVars, parent_cwd >>

\* set_wd, reset and the two run methods in any order, with children that
\* print nothing
NextSeq ==
    \/ SetWd
    \/ Reset
    \/ RunSync
    \/ RunSyncCapture
    \/ Pipe
    \/ Fork
    \/ ParentCloseWrite
    \/ ReadEOF
    \/ ReadEINTR
    \/ ReadError
    \/ WaitpidReaps
    \/ WaitpidInterrupted
    \/ ChildChdir
    \/ ChildRedirect
    \/ ChildExec
    \/ ChildExit
    \/ ChildKilled
    \/ ChildUnwoundEnds
    \/ Again

SpecSeq == InitCmd /\ [][NextSeq]_vars

\* C11: over every sequence of set_wd, reset, run_sync and run_sync_capture
\* calls, the current directory of the calling process stays what it was.
C11_CallerCwdUnchanged == parent_cwd = "."

\* in a later run of the sequence, after a set_wd, a child has changed into
\* the working directory
C11_Witness ==
    /\ runs > 0
    /\ call = "run_sync"
    /\ m_working_dir # "."
    /\ child_cwd = m_working_dir
    /\ child_pc \in {"ready", "running"}
    /\ parent_cwd = "."

(* ------------------------------------------------------------------ *)
(* go_rebuild_urself                                                   *)
(* ------------------------------------------------------------------ *)

\* Cmd cmd("c++", source_path, "-o", binary_path)
RebuildCommand == << <<"c++">>, <<"nob.cpp">>, <<"-o">>, <<"nob">> >>

IsStaleOrEqual(source, binary) == source >= binary
\* line 235: source_time > binary_time
IsStale(source, binary) == source > binary

\* the trampoline at the start of main, with the two timestamps it read
InitRebuild ==
    /\ m_command = <<>>
    /\ m_working_dir = DefaultWd
    /\ InitRun
    /\ rb_pc = "start"
    /\ binary_time \in 0..MaxTime
    /\ source_time \in 0..MaxTime
    /\ recompiles = 0
    /\ last_ops = <<>>
    /\ runs = 0
    /\ ExtIdle

\* lines 230-238: compare the timestamps; when the source is newer, log, build
\* the compiler command and enter run_sync (its log line and argv, up to fork)
GoRebuildUrself ==
    /\ rb_pc = "start"
    /\ IF IsStale(source_time, binary_time)
       THEN /\ m_command' = AddTokens(<<>>, RebuildCommand)
            /\ cout' = cout \o << LogLine("Info", <<"Rebuilding meself">>),
                                  RunSyncLogLine(RebuildCommand) >>
            /\ call' = "run_sync"
            /\ pc' = "fork"
            /\ recompiles' = recompiles + 1
            /\ rb_pc' = "compile"
       ELSE /\ rb_pc' = "returned"
            /\ UNCHANGED << m_command, cout, call, pc, recompiles >>
    /\ UNCHANGED << m_working_dir, binary_time, source_time, last_ops, extVars, parent_cwd,
                    parent_fds, pipe_buf, sink, sink0, status, ret, thrown, eintr,
                    childVars >>

\* lines 238-241: what follows the compiler's run_sync status
AfterCompile(r) == IF r # 0 THEN "throw" ELSE "exec"

\* lines 238-243: run_sync has left; throw, or replace the process image, or
\* _exit(1) when execvp fails. An exception of run_sync passes through.
RebuildAfterRun ==
    /\ rb_pc = "compile"
    /\ \/ /\ pc = "thrown"
          /\ rb_pc' = "thrown"
          /\ UNCHANGED thrown
       \/ /\ pc = "returned"
          /\ AfterCompile(ret) = "throw"
          /\ thrown' = "go_rebuild_urself(): Rebuild failed"
          /\ rb_pc' = "thrown"
       \/ /\ pc = "returned"
          /\ AfterCompile(ret) = "exec"
          /\ rb_pc' \in {"restarted", "exited"}
          /\ UNCHANGED thrown
    /\ UNCHANGED << cmdVars, binary_time, source_time, recompiles, last_ops, extVars, call, pc,
                    cout, parent_cwd, parent_fds, pipe_buf, sink, sink0, status, ret,
                    eintr, childVars >>

NextRebuild ==
    \/ GoRebuildUrself
    \/ Fork
    \/ ChildChdir
    \/ ChildExec
    \/ ChildExit
    \/ ChildKilled
    \/ WaitpidReaps
    \/ WaitpidInterrupted
    \/ RebuildAfterRun

SpecRebuild == InitRebuild /\ [][NextRebuild]_vars

\* the compiler command was run and ended with exit code 0
CompileSucceeded == child_pc = "reaped" /\ child_status = ExitedStatus(0)

\* C7: once go_rebuild_urself has compared the timestamps: with the source
\* strictly newer the compiler command has been run exactly once, and that run
\* has ended before the process image is replaced; with the source not newer
\* the compiler command is never run, nothing is forked or restarted and
\* control is back with the caller.
C7_OneRecompileIffStale ==
    rb_pc # "start" =>
        IF source_time > binary_time
        THEN /\ recompiles = 1
             /\ rb_pc \in {"restarted", "exited"} => pc = "returned"
        ELSE /\ recompiles = 0
             /\ rb_pc = "returned"
             /\ call = "none"
             /\ child_pc = "none"

\* the source was newer and the process image was replaced after one compile
C7_Witness ==
    /\ source_time > binary_time
    /\ rb_pc = "restarted"
    /\ recompiles = 1
    /\ CompileSucceeded

\* C8: go_rebuild_urself returns normally only when the source is not newer
\* than the binary, and it reaches the replacement of the process image only
\* when the recompilation succeeded: a failed recompilation ends in the
\* error, never in a restart.
C8_NoStaleRestart ==
    /\ rb_pc = "returned" => ~(source_time > binary_time)
    /\ rb_pc \in {"restarted", "exited"} => CompileSucceeded

(* ------------------------------------------------------------------ *)
(* Properties of the process runner                                    *)
(* ------------------------------------------------------------------ *)

ChildTerminated == child_pc \in {"terminated", "reaped"}
ChildExitedNormally == ChildTerminated /\ WIFEXITED(child_status)
ChildSignaled == ChildTerminated /\ ~WIFEXITED(child_status)
\* every value a call returns for a child that exited normally
NormalReturns == 0..255

\* C1: when the call returns with the status waitpid stored for the child
\* whose image was started, an image that exited with code N yields N, and an
\* image killed by a signal yields a non-zero value that no normally exiting
\* child can yield.
C1_ExitCodeAndSentinel ==
    (pc = "returned" /\ child_pc = "reaped" /\ child_exec = "ok") =>
        /\ ChildExitedNormally => ret = WEXITSTATUS(child_status)
        /\ ChildSignaled => (ret # 0 /\ ret \notin NormalReturns)

\* C2: in run_sync_capture, from the draining on, the sink followed by what
\* is still in the pipe is what the sink held before followed by the child's
\* output; after the zero-byte read nothing is left in the pipe, so the sink
\* of a returned call holds exactly the child's output, appended once, in order.
C2_CaptureExact ==
    (call = "run_sync_capture" /\ pc \in {"drain", "wait", "returned"}) =>
        /\ sink \o pipe_buf = sink0 \o child_out
        /\ pc \in {"wait", "returned"} => (pipe_buf = <<>> /\ ~Writers)
        /\ pc = "returned" => sink = sink0 \o child_out

\* a capture returned a child's output longer than the pipe's capacity, after
\* an interrupted read, behind content the sink already held
C2_Witness ==
    /\ call = "run_sync_capture"
    /\ pc = "returned"
    /\ Len(child_out) > PipeCap
    /\ eintr > 0
    /\ sink0 # <<>>
    /\ sink = sink0 \o child_out

CaptureForked == call = "run_sync_capture" /\ child_pc = "forked"
CaptureLeft ==
    \/ pc = "returned"
    \/ pc = "thrown" /\ thrown = "run_sync_capture(): Error reading from pipe"

\* C3: run_sync_capture does not deadlock. While it drains it does not hold
\* the pipe's write end, it waits for the child only once the pipe is at
\* end-of-stream, and once the child is forked the call comes to its end: it
\* returns, unless read() failed with an error other than EINTR.
C3_NoDeadlock ==
    /\ []((call = "run_sync_capture" /\ pc = "drain") => "w" \notin parent_fds)
    /\ []((call = "run_sync_capture" /\ pc = "wait") => (pipe_buf = <<>> /\ ~Writers))
    /\ (CaptureForked ~> CaptureLeft)

\* a capture returned the status of a reaped child that had written more
\* than the pipe holds at once
C3_Witness ==
    /\ call = "run_sync_capture"
    /\ pc = "returned"
    /\ child_pc = "reaped"
    /\ Len(child_out) > PipeCap

\* C4: a status is returned only after the child has terminated and been
\* waited for (for a capture, with the pipe at end-of-stream), and it is the
\* normalized termination status of the child.
C4_ReturnAfterTermination ==
    pc = "returned" =>
        /\ child_pc = "reaped"
        /\ ret = Normalize(child_status)
        /\ call = "run_sync_capture" => (pipe_buf = <<>> /\ ~Writers)

\* C5: when execvp fails in the child, the child ends with a non-zero exit
\* status and the call returns a non-zero status to the calling process.
C5_ExecFailureReported ==
    child_exec = "failed" =>
        /\ ChildTerminated /\ WIFEXITED(child_status) /\ WEXITSTATUS(child_status) # 0
        /\ pc = "returned" => ret # 0

\* text holds tok at position i
OccursAt(text, tok, i) ==
    /\ i + Len(tok) - 1 <= Len(text)
    /\ SubSeq(text, i, i + Len(tok) - 1) = tok

\* text holds the tokens toks one after the other, without overlap, from
\* position from on
RECURSIVE ContainsInOrder(_, _, _)
ContainsInOrder(text, toks, from) ==
    IF toks = <<>> THEN TRUE
    ELSE LET at == { i \in from..Len(text) : OccursAt(text, Head(toks), i) } IN
         /\ at # {}
         /\ LET first == CHOOSE i \in at : \A j \in at : i <= j IN
            ContainsInOrder(text, Tail(toks), first + Len(Head(toks)))

\* C9: whenever a child has been forked, the calling process has already put
\* out exactly one log line, at Info level, and the line holds every token of
\* the argument sequence, whole and in order.
C9_LoggedBeforeFork ==
    (rb_pc = "off" /\ child_pc # "none") =>
        /\ Len(cout) = 1
        /\ cout[1].lvl = "Info"
        /\ cout[1].text[1] = "[NOB INFO] "
        /\ ContainsInOrder(cout[1].text, m_command, 1)

\* a child was forked for a command of MaxArgs tokens
C9_Witness ==
    /\ rb_pc = "off"
    /\ child_pc = "forked"
    /\ Len(m_command) = MaxArgs
    /\ Len(cout) = 1

\* what C10 asks of a launch: the image runs the Command's tokens, in the
\* Command's working directory when one was set
LaunchedAsBuilt ==
    /\ child_image = m_command
    /\ m_working_dir # "." => child_cwd = m_working_dir

\* run_sync launches every image as built (the reference C10 compares with)
RunSyncLaunchesAsBuilt ==
    (call = "run_sync" /\ child_exec = "ok") => LaunchedAsBuilt

\* C10: run_sync_capture launches the child as run_sync does: the same
\* tokens, and in the working directory when one was set.
C10_CaptureLaunchesLikeSync ==
    (call = "run_sync_capture" /\ child_exec = "ok") => LaunchedAsBuilt

\* C19: a forked child never resumes the caller's logic: on every path
\* through the child branch it either becomes the new program or exits.
C19_ChildNeverResumesCaller == child_pc # "unwound"

\* C20: once the call has left the calling process, by return or by
\* exception, the child it created has been waited for (here without any
\* interrupted waitpid).
C20_ChildReapedOnLeave ==
    (pc \in {"returned", "thrown"} /\ child_pc # "none" /\ eintr = 0) => child_pc = "reaped"

(* ------------------------------------------------------------------ *)
(* Paths (std::filesystem::path) and the file system                    *)
(* ------------------------------------------------------------------ *)

\* A path is its text, cut into pieces: at most one leading directory piece
\* ("dl/"), then the filename: at most one piece without a period, then
\* pieces that each start with a period.
DirAtoms == {"dl/"}
ExtAtoms == {".tar", ".gz", ".bz2", ".zip", ".rar"}
DotAtoms == ExtAtoms \cup {".d"}

\* path::filename(): the text after the last directory separator
Filename(p) == IF p # <<>> /\ Head(p) \in DirAtoms THEN Tail(p) ELSE p

\* path::extension(): the filename from its rightmost period on; a filename
\* whose only period is its first character has no extension
Extension(p) ==
    LET f == Filename(p)
    IN  IF Len(f) > 1 /\ f[Len(f)] \in DotAtoms THEN << f[Len(f)] >> ELSE <<>>

\* path::stem(): the filename without its extension
Stem(p) ==
    LET f == Filename(p)
    IN  SubSeq(f, 1, Len(f) - Len(Extension(p)))

\* path::parent_path() as a file-system entry; <<>> is the current directory
ParentPath(p) == IF p # <<>> /\ Head(p) = "dl/" THEN <<"dl">> ELSE <<>>

\* the entries the helper is called on: two in the current directory, one
\* below dl
FsPaths == { <<"dl">>, <<"out">>, <<"dl/", "out">> }

\* fs::status(p).type(); the current directory is a directory
Kind(f, p) ==
    IF p \in { <<>>, <<".">> } THEN "dir" ELSE IF p \in DOMAIN f THEN f[p] ELSE "absent"

\* file systems that can exist: an entry has a directory above it
FsStates ==
    { f \in UNION { [D -> {"dir", "file"}] : D \in SUBSET FsPaths } :
        \A p \in DOMAIN f : Kind(f, ParentPath(p)) = "dir" }

\* fs::exists(p)
Exists(f, p) == Kind(f, p) # "absent"
\* fs::is_directory(p)
IsDirectory(f, p) == Kind(f, p) = "dir"

\* fs::create_directories(p) can make p: nothing above it is a file
Creatable(f, p) == Kind(f, ParentPath(p)) \in {"dir", "absent"}

\* fs::create_directories(p) where it succeeds: p and what is missing above it
CreateDirectories(f, p) ==
    LET up == ParentPath(p)
        g  == IF up = <<>> THEN f ELSE (up :> "dir") @@ f
    IN  (p :> "dir") @@ g

(* ------------------------------------------------------------------ *)
(* mkdir (lines 88-100)                                                 *)
(* ------------------------------------------------------------------ *)

\* how a call of mkdir ends: it returns true or false, or
\* fs::create_directories throws std::filesystem::filesystem_error
MkdirEnd(f, p) ==
    IF Exists(f, p)
    THEN IF IsDirectory(f, p) THEN "true" ELSE "false"
    ELSE IF Creatable(f, p) THEN "true" ELSE "throws"

MkdirFsReplacesFile(f, p) ==
    IF ~IsDirectory(f, p) /\ Creatable(f, p) THEN CreateDirectories(f, p) ELSE f
\* the file system a call of mkdir leaves
MkdirFs(f, p) ==
    IF ~Exists(f, p) /\ Creatable(f, p) THEN CreateDirectories(f, p) ELSE f

\* the helper starts on some file system
InitMkdir ==
    /\ m_command = <<>>
    /\ m_working_dir = "."
    /\ InitRun
    /\ sink = <<>>
    /\ rb_pc = "off"
    /\ binary_time = 0
    /\ source_time = 0
    /\ recompiles = 0
    /\ last_ops = <<>>
    /\ runs = 0
    /\ fs \in FsStates
    /\ mk_calls = <<>>
    /\ ArchIdle
    /\ LogIdle

\* bool mkdir(const fs::path& path), called on p
MkdirCall(p) ==
    /\ fs' = MkdirFs(fs, p)
    /\ mk_calls' = (IF mk_calls = <<>> THEN <<>> ELSE << mk_calls[Len(mk_calls)] >>) \o
          << [path |-> p, before |-> fs, after |-> fs', end |-> MkdirEnd(fs, p),
              logged |-> Exists(fs, p) /\ IsDirectory(fs, p)] >>

\* a caller calls mkdir
Mkdir ==
    /\ \E p \in FsPaths : MkdirCall(p)
    /\ UNCHANGED << cmdVars, rbVars, last_ops, runs, archVars, logVars, parentVars, pipe_buf,
                    childVars >>

NextMkdir == Mkdir

SpecMkdir == InitMkdir /\ [][NextMkdir]_vars

\* the last two calls were made on one path
TwoCallsOnOnePath == Len(mk_calls) = 2 /\ mk_calls[1].path = mk_calls[2].path

\* C16: on a path that names nothing, mkdir either makes the directory and
\* returns true, or throws because an entry above the path is a file and
\* changes nothing; after a call that returned true, a second call on the
\* path returns true and changes nothing; on a path that names a file every
\* call returns false and changes nothing.
C16_MkdirIdempotent ==
    /\ \A i \in 1..Len(mk_calls) :
          LET c == mk_calls[i]
          IN  /\ Kind(c.before, c.path) = "absent" =>
                    /\ c.end \in {"true", "throws"}
                    /\ c.end = "throws" <=> Kind(c.before, ParentPath(c.path)) = "file"
                    /\ c.end = "true" => Kind(c.after, c.path) = "dir"
                    /\ c.end = "throws" => c.after = c.before
              /\ Kind(c.before, c.path) = "file" =>
                    c.end = "false" /\ c.after = c.before
    /\ TwoCallsOnOnePath =>
          /\ mk_calls[1].end = "true" =>
                mk_calls[2].end = "true" /\ mk_calls[2].after = mk_calls[2].before
          /\ Kind(mk_calls[1].before, mk_calls[1].path) = "file" =>
                /\ mk_calls[2].end = "false"
                /\ Kind(mk_calls[2].after, mk_calls[2].path) = "file"

\* a second call on a path the first call made a directory of, below a
\* directory the first call made as well
C16_Witness ==
    /\ TwoCallsOnOnePath
    /\ mk_calls[1].path = <<"dl/", "out">>
    /\ Kind(mk_calls[1].before, <<"dl">>) = "absent"
    /\ mk_calls[1].end = "true"
    /\ mk_calls[2].end = "true"
    /\ Kind(fs, <<"dl">>) = "dir"

\* C16 as stated: on every path that names nothing the first call makes the
\* directory and returns true.
C16_AbsentPathIsCreated ==
    \A i \in 1..Len(mk_calls) :
        Kind(mk_calls[i].before, mk_calls[i].path) = "absent" =>
            mk_calls[i].end = "true" /\ Kind(mk_calls[i].after, mk_calls[i].path) = "dir"

(* ------------------------------------------------------------------ *)
(* download and the extraction methods (lines 247-416)                  *)
(* ------------------------------------------------------------------ *)

\* longest chain of extensions a filename is given
MaxExts == 2

\* std::optional<Verbosity>
Verbosities == {"nullopt", "Quiet", "Quieter", "Verbose"}

\* std::optional<fs::path>: no path, or one
NullOpt == {}
Some(p) == {p}
ValueOr(o, d) == IF o = {} THEN d ELSE CHOOSE p \in o : TRUE

\* a literal token of a command
Lit(s) == << s >>

\* download, lines 251-269: the curl command
DownloadCmd(url, out, v) ==
    << Lit("curl"), Lit("-L") >>
    \o (IF v = "Verbose" THEN << Lit("-v") >>
        ELSE IF v \in {"Quiet", "Quieter"} THEN << Lit("-s") >> ELSE <<>>)
    \o (IF out # {} THEN << Lit("-o"), ValueOr(out, <<>>) >> ELSE << Lit("-O") >>)
    \o << url >>

\* extract_tar_gz, lines 278-294: -C out is not added
ExtractTarGzCmd(archive, out, v) ==
    << Lit("tar"), Lit("-x"), Lit("-z") >>
    \o (IF v = "Verbose" THEN << Lit("-v") >> ELSE <<>>)
    \o << Lit("-f"), archive >>

\* extract_tar_bz2, lines 303-319
ExtractTarBz2Cmd(archive, out, v) ==
    << Lit("tar"), Lit("-x"), Lit("-j") >>
    \o (IF v = "Verbose" THEN << Lit("-v") >> ELSE <<>>)
    \o << Lit("-f"), archive >>
    \o (IF out # {} THEN << Lit("-C"), ValueOr(out, <<>>) >> ELSE <<>>)

\* extract_bz2, lines 328-342
ExtractBz2Cmd(compressed, out, v) ==
    << Lit("bzip2"), Lit("-d"), Lit("-k"), compressed >>
    \o (IF v = "Verbose" THEN << Lit("-v") >>
        ELSE IF v = "Quiet" THEN << Lit("-q") >> ELSE <<>>)
    \o (IF out # {} THEN << Lit("-c") >> ELSE <<>>)

\* extract_zip, lines 362-377
ExtractZipCmd(archive, out, v) ==
    << Lit("unzip") >>
    \o (IF v = "Verbose" THEN << Lit("-v") >>
        ELSE IF v = "Quiet" THEN << Lit("-q") >>
        ELSE IF v = "Quieter" THEN << Lit("-qq") >> ELSE <<>>)
    \o << archive >>
    \o (IF out # {} THEN << Lit("-d"), ValueOr(out, <<>>) >> ELSE <<>>)

\* extract_gz, lines 386-402
ExtractGzCmd(compressed, out, v) ==
    << Lit("gunzip") >>
    \o (IF v = "Verbose" THEN << Lit("-v") >>
        ELSE IF v = "Quiet" THEN << Lit("-q") >> ELSE <<>>)
    \o << Lit("-k"), compressed >>
    \o (IF out # {} THEN << Lit("-c") >> ELSE <<>>)

\* the command of an extraction method
MethodCmd(method, archive, out, v) ==
    CASE method = "extract_tar_gz"  -> ExtractTarGzCmd(archive, out, v)
      [] method = "extract_tar_bz2" -> ExtractTarBz2Cmd(archive, out, v)
      [] method = "extract_bz2"     -> ExtractBz2Cmd(archive, out, v)
      [] method = "extract_zip"     -> ExtractZipCmd(archive, out, v)
      [] method = "extract_gz"      -> ExtractGzCmd(archive, out, v)
      [] OTHER                      -> <<>>

\* lines 340-351 and 400-411: the method opens out as a file and captures
\* the tool's standard output into it
Captures(method, out) == method \in {"extract_gz", "extract_bz2"} /\ out # {}

\* outfile.open(out->string()); outfile.is_open()
CanOpen(f, p) == Kind(f, p) # "dir" /\ Kind(f, ParentPath(p)) = "dir"

\* what a method returns for the status st of its tool: cmd.run_sync() == 0,
\* or on the capturing path "return status;", the int converted to bool
Returned(method, out, st) ==
    IF Captures(method, out) THEN st # 0 ELSE st = 0

(* ------------------------------------------------------------------ *)
(* extract and download_and_extract (lines 418-463)                     *)
(* ------------------------------------------------------------------ *)

\* the method extract hands the call to, with the arguments it hands over
Handed(method, in, output, v) ==
    [method |-> method, archive |-> in, out |-> Some(output), v |-> v]
\* "return false;" at line 445: no method called
NoMethod == [method |-> "none", archive |-> <<>>, out |-> NullOpt, v |-> "nullopt"]

ExtractSingleFirst(in, out, v) ==
    LET output == ValueOr(out, Stem(in))
    IN  IF Extension(in) = << ".gz" >> THEN Handed("extract_gz", in, output, v)
        ELSE IF Extension(in) = << ".zip" >> THEN Handed("extract_zip", in, output, v)
        ELSE IF Extension(in) = << ".bz2" >> THEN Handed("extract_bz2", in, output, v)
        ELSE NoMethod
\* extract, lines 424-445
Extract(in, out, v) ==
    LET output == ValueOr(out, Stem(in))
    IN  IF Extension(in) = << ".gz" >>
        THEN IF Extension(Stem(in)) = << ".tar" >>
             THEN Handed("extract_tar_gz", in, Stem(output), v)
             ELSE Handed("extract_gz", in, output, v)
        ELSE IF Extension(in) = << ".zip" >>
        THEN Handed("extract_zip", in, output, v)
        ELSE IF Extension(in) = << ".bz2" >>
        THEN IF Extension(Stem(in)) = << ".tar" >>
             THEN Handed("extract_tar_bz2", in, output, v)
             ELSE Handed("extract_bz2", in, output, v)
        ELSE NoMethod

\* filenames: a name part or none, then up to MaxExts extensions
Filenames ==
    { b \o e : b \in { <<>>, << "archive" >> }, e \in SeqsUpTo(ExtAtoms, MaxExts) } \ { <<>> }
\* paths extract is called on
InPaths == Filenames \cup { << "dl/" >> \o n : n \in Filenames }
\* destinations a caller names
OutPaths == { << "." >>, << "out" >>, << "dl/", "out" >>, << "out", ".d" >> }
OptOuts == { NullOpt } \cup { Some(p) : p \in OutPaths }
\* pieces of a URL that end in '/'
SlashAtoms == { "http://host/", "dl/" }
Urls == { << "http://host/" >> \o p : p \in InPaths }

\* url.substr(url.find_last_of('/') + 1), line 452
RECURSIVE AfterLastSlash(_)
AfterLastSlash(url) ==
    IF \E i \in 1..Len(url) : url[i] \in SlashAtoms
    THEN AfterLastSlash(Tail(url))
    ELSE url

\* the destination download_and_extract hands to extract, line 462
DestinationHanded(archive_path, out) == Some(ValueOr(out, Stem(Stem(archive_path))))

\* a sub-step as the call records it
Step(name, method, cmd, out, st, end) ==
    [step |-> name, method |-> method, cmd |-> cmd, out |-> out, status |-> st, end |-> end]

BoolText(b) == IF b THEN "true" ELSE "false"

\* what stays as it is while an archive call runs
ArchFrame == UNCHANGED << cmdVars, rbVars, last_ops, runs, logVars, parentVars, pipe_buf, childVars >>

\* extract(in, out, v) is called
ExtractCall ==
    /\ ar_pc = "idle"
    /\ \E p \in InPaths, o \in OptOuts, v \in Verbosities :
          ar_call' = [fn |-> "extract", url |-> <<>>, in |-> p, out |-> o, handed |-> o, v |-> v]
    /\ ar_pc' = "extract"
    /\ UNCHANGED << fsVars, ar_steps, ar_ret >>
    /\ ArchFrame

\* download_and_extract(url, out, v) is called, line 452
DownloadAndExtractCall ==
    /\ ar_pc = "idle"
    /\ \E u \in Urls, o \in OptOuts, v \in Verbosities :
          ar_call' = [fn |-> "download_and_extract", url |-> u, in |-> AfterLastSlash(u),
                      out |-> o, handed |-> DestinationHanded(AfterLastSlash(u), o), v |-> v]
    /\ ar_pc' = "download"
    /\ UNCHANGED << fsVars, ar_steps, ar_ret >>
    /\ ArchFrame

\* lines 454-456: download(url, archive_path, v); curl ends with some status.
\* Here and in ExtractStep cmd.run_sync() and cmd.run_sync_capture() are taken
\* by the int they return, any of ExitCodes.
DownloadStep ==
    /\ ar_pc = "download"
    /\ \E st \in ExitCodes :
          /\ ar_steps' = Append(ar_steps,
                Step("download", "download",
                     DownloadCmd(ar_call.url, Some(ar_call.in), ar_call.v),
                     Some(ar_call.in), st, BoolText(st = 0)))
          /\ IF st = 0
             THEN ar_pc' = "mkdir" /\ UNCHANGED ar_ret
             ELSE ar_pc' = "returned" /\ ar_ret' = "false"
    /\ UNCHANGED << fsVars, ar_call >>
    /\ ArchFrame

\* lines 458-460: if (out) { mkdir(*out); }; what mkdir returns is dropped,
\* what it throws leaves download_and_extract
MkdirStep ==
    /\ ar_pc = "mkdir"
    /\ IF ar_call.out = NullOpt
       THEN /\ ar_pc' = "extract"
            /\ UNCHANGED << fsVars, ar_steps >>
       ELSE LET D == ValueOr(ar_call.out, <<>>)
            IN  /\ MkdirCall(D)
                /\ ar_steps' = Append(ar_steps,
                      Step("mkdir", "mkdir", <<>>, ar_call.out, -1, MkdirEnd(fs, D)))
                /\ ar_pc' = IF MkdirEnd(fs, D) = "throws" THEN "thrown" ELSE "extract"
    /\ UNCHANGED << ar_call, ar_ret >>
    /\ ArchFrame

\* extract, lines 424-445, down to the return of the method it calls
ExtractStep ==
    /\ ar_pc = "extract"
    /\ LET h   == Extract(ar_call.in, ar_call.handed, ar_call.v)
           cmd == MethodCmd(h.method, h.archive, h.out, h.v)
       IN  IF h.method = "none"
           THEN /\ ar_steps' = Append(ar_steps, Step("extract", "none", <<>>, NullOpt, -1, "false"))
                /\ ar_ret' = "false"
                /\ ar_pc' = "returned"
                /\ UNCHANGED fsVars
           ELSE IF Captures(h.method, h.out) /\ ~CanOpen(fs, ValueOr(h.out, <<>>))
           THEN /\ ar_steps' = Append(ar_steps, Step("extract", h.method, <<>>, h.out, -1, "throws"))
                /\ ar_pc' = "thrown"
                /\ UNCHANGED << fsVars, ar_ret >>
           ELSE /\ \E st \in ExitCodes :
                      /\ ar_steps' = Append(ar_steps,
                            Step("extract", h.method, cmd, h.out, st,
                                 BoolText(Returned(h.method, h.out, st))))
                      /\ ar_ret' = BoolText(Returned(h.method, h.out, st))
                /\ fs' = IF Captures(h.method, h.out)
                         THEN (ValueOr(h.out, <<>>) :> "file") @@ fs
                         ELSE fs
                /\ ar_pc' = "returned"
                /\ UNCHANGED mk_calls
    /\ UNCHANGED ar_call
    /\ ArchFrame

\* a caller with some file system before it
InitArchive ==
    /\ m_command = <<>>
    /\ m_working_dir = "."
    /\ InitRun
    /\ sink = <<>>
    /\ rb_pc = "off"
    /\ binary_time = 0
    /\ source_time = 0
    /\ recompiles = 0
    /\ last_ops = <<>>
    /\ runs = 0
    /\ fs \in FsStates
    /\ mk_calls = <<>>
    /\ ArchIdle
    /\ LogIdle

NextArchive ==
    \/ ExtractCall
    \/ DownloadAndExtractCall
    \/ DownloadStep
    \/ MkdirStep
    \/ ExtractStep

SpecArchive == InitArchive /\ [][NextArchive]_vars

(* ------------------------------------------------------------------ *)
(* Properties of the archive functions                                  *)
(* ------------------------------------------------------------------ *)

\* the sub-step attempted last
LastStep == ar_steps[Len(ar_steps)]
\* extract has run down to its return or to the exception that left it
ExtractAttempted == ar_steps # <<>> /\ LastStep.step = "extract"
\* the filename extract was called on
Name == Filename(ar_call.in)

\* the text n ends in the pieces suf
EndsWith(n, suf) ==
    Len(n) >= Len(suf) /\ SubSeq(n, Len(n) - Len(suf) + 1, Len(n)) = suf
\* ... with at least one character before them
EndsWithAfterText(n, suf) == EndsWith(n, suf) /\ Len(n) > Len(suf)

\* the first token of a command, and its third
Tool(cmd) == IF cmd = <<>> THEN "" ELSE cmd[1][1]
Family(cmd) == IF Len(cmd) < 3 THEN "" ELSE cmd[3][1]

\* the method the claimed rule gives a filename, suffixes read off the text
SuffixMethod(n) ==
    IF EndsWith(n, << ".tar", ".gz" >>) THEN "extract_tar_gz"
    ELSE IF EndsWith(n, << ".tar", ".bz2" >>) THEN "extract_tar_bz2"
    ELSE IF EndsWith(n, << ".gz" >>) THEN "extract_gz"
    ELSE IF EndsWith(n, << ".bz2" >>) THEN "extract_bz2"
    ELSE IF EndsWith(n, << ".zip" >>) THEN "extract_zip"
    ELSE "none"

\* the same rule where a suffix counts only with text before it
SuffixAfterTextMethod(n) ==
    IF EndsWithAfterText(n, << ".tar", ".gz" >>) THEN "extract_tar_gz"
    ELSE IF EndsWithAfterText(n, << ".tar", ".bz2" >>) THEN "extract_tar_bz2"
    ELSE IF EndsWithAfterText(n, << ".gz" >>) THEN "extract_gz"
    ELSE IF EndsWithAfterText(n, << ".bz2" >>) THEN "extract_bz2"
    ELSE IF EndsWithAfterText(n, << ".zip" >>) THEN "extract_zip"
    ELSE "none"

\* the tool a method runs
ToolRun(step) ==
    step.cmd # <<>> =>
        CASE step.method = "extract_tar_gz"  -> Tool(step.cmd) = "tar" /\ Family(step.cmd) = "-z"
          [] step.method = "extract_tar_bz2" -> Tool(step.cmd) = "tar" /\ Family(step.cmd) = "-j"
          [] step.method = "extract_gz"      -> Tool(step.cmd) = "gunzip"
          [] step.method = "extract_bz2"     -> Tool(step.cmd) = "bzip2"
          [] step.method = "extract_zip"     -> Tool(step.cmd) = "unzip"
          [] OTHER                           -> FALSE

\* C12: extract tests the compound suffixes first, a suffix counting only
\* when the filename has text before it: .tar.gz and .tar.bz2 go to the tar
\* extractor of their family, .gz and .bz2 otherwise to gunzip and bzip2, .zip
\* to unzip; every other name returns false and no command is run.
C12_CompoundSuffixFirst ==
    ExtractAttempted =>
        /\ LastStep.method = SuffixAfterTextMethod(Name)
        /\ ToolRun(LastStep)
        /\ LastStep.method = "none" =>
              /\ ar_pc = "returned"
              /\ ar_ret = "false"
              /\ \A i \in 1..Len(ar_steps) :
                    ar_steps[i].step = "extract" => ar_steps[i].cmd = <<>>

\* archive.tar.gz was handed to tar -x -z, which has run
C12_Witness ==
    /\ ExtractAttempted
    /\ Name = << "archive", ".tar", ".gz" >>
    /\ LastStep.method = "extract_tar_gz"
    /\ Tool(LastStep.cmd) = "tar"
    /\ ar_pc = "returned"

\* C12 as stated: every name that ends in a known suffix goes to the method
\* of that suffix.
C12_EverySuffixRouted ==
    ExtractAttempted => LastStep.method = SuffixMethod(Name)

\* the filename with the suffix chain of its method taken off
Stripped(n) ==
    SubSeq(n, 1, Len(n) - (IF SuffixAfterTextMethod(n) \in {"extract_tar_gz", "extract_tar_bz2"}
                           THEN 2 ELSE 1))

\* C13: extract called without a destination hands the method it selects
\* the input filename with the whole matched suffix chain stripped.
C13_DefaultDestinationStripped ==
    ( /\ ExtractAttempted
      /\ ar_call.fn = "extract"
      /\ ar_call.out = NullOpt
      /\ SuffixAfterTextMethod(Name) # "none" )
    => LastStep.out = Some(Stripped(Name))

\* a sub-step of download_and_extract that failed: curl ended non-zero, or
\* the destination is there and is no directory
StepFailed(s) ==
    \/ s.step = "download" /\ s.status # 0
    \/ s.step = "mkdir" /\ s.end = "false"

\* the position of a sub-step in the order download, mkdir, extract
StepRank(s) == IF s.step = "download" THEN 1 ELSE IF s.step = "mkdir" THEN 2 ELSE 3

\* C14: download_and_extract attempts download, mkdir, extract in this
\* order, and a failed download or a destination that is no directory is the
\* last sub-step attempted, after which the call returns false.
C14_FailsClosed ==
    ar_call # <<>> /\ ar_call.fn = "download_and_extract" =>
        /\ \A i, j \in 1..Len(ar_steps) :
              i < j => StepRank(ar_steps[i]) < StepRank(ar_steps[j])
        /\ \A i \in 1..Len(ar_steps) :
              StepFailed(ar_steps[i]) =>
                  /\ i = Len(ar_steps)
                  /\ ar_pc = "returned"
                  /\ ar_ret = "false"

\* the command names D as the place its output goes: tar -C D, unzip -d D,
\* or the file D that the decompressor's output is captured into
NamesOutput(s, D) ==
    \/ \E i \in 1..(Len(s.cmd) - 1) :
          s.cmd[i] \in { Lit("-C"), Lit("-d") } /\ s.cmd[i + 1] = D
    \/ Captures(s.method, s.out) /\ s.out = Some(D)

\* C15: download_and_extract with an explicit destination D runs an
\* extraction command that names D, unaltered, as its output location.
C15_ExtractsIntoDestination ==
    ( /\ ExtractAttempted
      /\ ar_call.fn = "download_and_extract"
      /\ ar_call.out # NullOpt
      /\ LastStep.cmd # <<>> )
    => NamesOutput(LastStep, ValueOr(ar_call.out, <<>>))

\* C18: extract returns true exactly when the extraction tool it ran ended
\* with status 0.
C18_TrueIffToolExitedZero ==
    (ExtractAttempted /\ LastStep.cmd # <<>> /\ ar_pc = "returned") =>
        (ar_ret = "true" <=> LastStep.status = 0)

(* ------------------------------------------------------------------ *)
(* log called from several threads (lines 51-86)                        *)
(* ------------------------------------------------------------------ *)

\* calls of log one thread makes
MaxLogs == 1

Threads == {1, 2}
\* instantiations of template<typename... Args> log(std::ostream&, LogLevel,
\* Args&&...): one per pack of argument types, here <const char(&)[15], Cmd&>
\* and <fs::path&, const char(&)[30]>
Instantiations == {"log<chars, Cmd>", "log<path, chars>"}
Streams == {"cout", "cerr"}
LogLevels == {"Info", "Warning", "Error"}

\* lines 63-76: the label written first
Label(lvl) ==
    IF lvl = "Info" THEN "[NOB INFO] "
    ELSE IF lvl = "Warning" THEN "[NOB WARNING] "
    ELSE "[NOB ERROR] "

\* line 60: "static std::mutex mtx;" is a local of the function template, so
\* every instantiation has a mutex of its own
MutexOf(inst) == inst

\* what a thread writes: the piece, the thread, and which of its calls
Piece(t, part) == [by |-> t, call |-> lg_left[t], part |-> part]

LogFrame ==
    UNCHANGED << cmdVars, rbVars, last_ops, runs, fsVars, archVars, parentVars, pipe_buf,
                 childVars >>

\* threads about to log, every mutex free, nothing written
InitLog ==
    /\ m_command = <<>>
    /\ m_working_dir = "."
    /\ InitRun
    /\ sink = <<>>
    /\ rb_pc = "off"
    /\ binary_time = 0
    /\ source_time = 0
    /\ recompiles = 0
    /\ last_ops = <<>>
    /\ runs = 0
    /\ fs = <<>>
    /\ mk_calls = <<>>
    /\ ArchIdle
    /\ lg_pc = [t \in Threads |-> "idle"]
    /\ lg_call = [t \in Threads |-> <<>>]
    /\ lg_mtx = [m \in { MutexOf(i) : i \in Instantiations } |-> 0]
    /\ lg_out = [s \in Streams |-> <<>>]
    /\ lg_left = [t \in Threads |-> MaxLogs]

\* lines 51-55, 57-58, 82-86: log(lvl, args...) writes to std::cout,
\* error(args...) to std::cerr at level Error, log(out, lvl, args...) to out
LogCall(t) ==
    /\ lg_pc[t] = "idle"
    /\ lg_left[t] > 0
    /\ \E i \in Instantiations, s \in Streams, lvl \in LogLevels :
          lg_call' = [lg_call EXCEPT ![t] = [inst |-> i, stream |-> s, lvl |-> lvl]]
    /\ lg_pc' = [lg_pc EXCEPT ![t] = "lock"]
    /\ UNCHANGED << lg_mtx, lg_out, lg_left >>
    /\ LogFrame

\* line 61: std::lock_guard<std::mutex> lock(mtx)
LogLock(t) ==
    /\ lg_pc[t] = "lock"
    /\ lg_mtx[MutexOf(lg_call[t].inst)] = 0
    /\ lg_mtx' = [lg_mtx EXCEPT ![MutexOf(lg_call[t].inst)] = t]
    /\ lg_pc' = [lg_pc EXCEPT ![t] = "label"]
    /\ UNCHANGED << lg_call, lg_out, lg_left >>
    /\ LogFrame

\* lines 63-76: out << label
LogLabel(t) ==
    /\ lg_pc[t] = "label"
    /\ lg_out' = [lg_out EXCEPT ![lg_call[t].stream] = Append(@, Piece(t, Label(lg_call[t].lvl)))]
    /\ lg_pc' = [lg_pc EXCEPT ![t] = "args"]
    /\ UNCHANGED << lg_call, lg_mtx, lg_left >>
    /\ LogFrame

\* line 78: (out << ... << std::forward<Args>(args))
LogArgs(t) ==
    /\ lg_pc[t] = "args"
    /\ lg_out' = [lg_out EXCEPT ![lg_call[t].stream] = Append(@, Piece(t, "args"))]
    /\ lg_pc' = [lg_pc EXCEPT ![t] = "newline"]
    /\ UNCHANGED << lg_call, lg_mtx, lg_left >>
    /\ LogFrame

\* line 79: out << '\n'
LogNewline(t) ==
    /\ lg_pc[t] = "newline"
    /\ lg_out' = [lg_out EXCEPT ![lg_call[t].stream] = Append(@, Piece(t, "\n"))]
    /\ lg_pc' = [lg_pc EXCEPT ![t] = "unlock"]
    /\ UNCHANGED << lg_call, lg_mtx, lg_left >>
    /\ LogFrame

\* line 80: the lock_guard goes out of scope and log returns
LogUnlock(t) ==
    /\ lg_pc[t] = "unlock"
    /\ lg_mtx' = [lg_mtx EXCEPT ![MutexOf(lg_call[t].inst)] = 0]
    /\ lg_pc' = [lg_pc EXCEPT ![t] = "idle"]
    /\ lg_left' = [lg_left EXCEPT ![t] = @ - 1]
    /\ UNCHANGED << lg_call, lg_out >>
    /\ LogFrame

LogCalls == \E t \in Threads : LogCall(t)
LogLocks == \E t \in Threads : LogLock(t)
LogLabels == \E t \in Threads : LogLabel(t)
LogArgss == \E t \in Threads : LogArgs(t)
LogNewlines == \E t \in Threads : LogNewline(t)
LogUnlocks == \E t \in Threads : LogUnlock(t)

NextLog ==
    \/ LogCalls
    \/ LogLocks
    \/ LogLabels
    \/ LogArgss
    \/ LogNewlines
    \/ LogUnlocks

SpecLog == InitLog /\ [][NextLog]_vars

\* the pieces w of a stream are whole lines one after the other: what
\* follows a label or the arguments comes from the same call
WholeLines(w) ==
    \A i \in 1..Len(w) :
        /\ w[i].part = "args" =>
              i > 1 /\ w[i - 1].by = w[i].by /\ w[i - 1].call = w[i].call
                    /\ w[i - 1].part \notin {"args", "\n"}
        /\ w[i].part = "\n" =>
              i > 1 /\ w[i - 1].by = w[i].by /\ w[i - 1].call = w[i].call
                    /\ w[i - 1].part = "args"

\* C17: the lines of any two concurrent log calls, whatever their argument
\* types, are never interleaved: every stream holds whole lines only.
C17_LinesNeverInterleave == \A s \in Streams : WholeLines(lg_out[s])

====
